---- MODULE Spec2Model ----
(***************************************************************************)
(* A minimal interactive shell (app/main.py): the read loop with its       *)
(* redirection extraction, target preparation, builtins and external       *)
(* launch, and the tab-completion callbacks registered with readline.      *)
(*                                                                         *)
(* Strings are tuples of one-character strings, so that prefix tests,      *)
(* dirname, joins and newline checks are computed as the code computes     *)
(* them.  The bell character is written "BEL".                             *)
(*                                                                         *)
(* Environment: a POSIX file system in which every entry is writable, a    *)
(* child process that only writes to its two standard streams, and a line  *)
(* editor that calls the completer and, whenever the word cannot be        *)
(* completed further (main.py:114-116), the display hook.                  *)
(***************************************************************************)
EXTENDS Integers, Sequences, FiniteSets, TLC

\* ------------------------------------------------------------------------
\* String literals of the source and of the environment.
\* ------------------------------------------------------------------------
s_exit == <<"e", "x", "i", "t">>  \* 'exit'
s_echo == <<"e", "c", "h", "o">>  \* 'echo'
s_type == <<"t", "y", "p", "e">>  \* 'type'
s_pwd == <<"p", "w", "d">>  \* 'pwd'
s_cd == <<"c", "d">>  \* 'cd'
s_ls == <<"l", "s">>  \* 'ls'
op_err_app == <<"2", ">", ">">>  \* '2>>'
op_err == <<"2", ">">>  \* '2>'
op_out_app == <<">", ">">>  \* '>>'
op_out_app1 == <<"1", ">", ">">>  \* '1>>'
op_out == <<">">>  \* '>'
op_out1 == <<"1", ">">>  \* '1>'
p_f == <<"f">>  \* 'f'
p_df == <<"d", "/", "f">>  \* 'd/f'
p_d == <<"d">>  \* 'd'
p_root == <<"/">>  \* '/'
p_w == <<"/", "w">>  \* '/w'
p_wd == <<"/", "w", "/", "d">>  \* '/w/d'
p_wf == <<"/", "w", "/", "f">>  \* '/w/f'
p_wdf == <<"/", "w", "/", "d", "/", "f">>  \* '/w/d/f'
p_a == <<"/", "a">>  \* '/a'
p_b == <<"/", "b">>  \* '/b'
p_als == <<"/", "a", "/", "l", "s">>  \* '/a/ls'
p_bls == <<"/", "b", "/", "l", "s">>  \* '/b/ls'
p_home == <<"/", "h">>  \* '/h'
s_old == <<"o", "\n">>  \* 'o\n'
s_tilde == <<"~">>  \* '~'
s_tilde_slash == <<"~", "/">>  \* '~/'
m_parse == <<"E", "r", "r", "o", "r", " ", "p", "a", "r", "s", "i", "n", "g", " ", "c", "o", "m", "m", "a", "n", "d", ":", " ">>  \* 'Error parsing command: '
m_syntax_op == <<"s", "y", "n", "t", "a", "x", " ", "e", "r", "r", "o", "r", ":", " ", "n", "o", " ", "f", "i", "l", "e", " ", "a", "f", "t", "e", "r", " ", "r", "e", "d", "i", "r", "e", "c", "t", "i", "o", "n", " ", "o", "p", "e", "r", "a", "t", "o", "r">>  \* 'syntax error: no file after redirection operator'
m_syntax_gt == <<"s", "y", "n", "t", "a", "x", " ", "e", "r", "r", "o", "r", ":", " ", "m", "i", "s", "s", "i", "n", "g", " ", "f", "i", "l", "e", " ", "a", "f", "t", "e", "r", " ", ">">>  \* 'syntax error: missing file after >'
m_create == <<"s", "h", "e", "l", "l", ":", " ", "f", "a", "i", "l", "e", "d", " ", "t", "o", " ", "c", "r", "e", "a", "t", "e", " ", "f", "i", "l", "e", " ">>  \* 'shell: failed to create file '
m_builtin == <<" ", "i", "s", " ", "a", " ", "s", "h", "e", "l", "l", " ", "b", "u", "i", "l", "t", "i", "n">>  \* ' is a shell builtin'
m_is == <<" ", "i", "s", " ">>  \* ' is '
m_notfound == <<":", " ", "n", "o", "t", " ", "f", "o", "u", "n", "d">>  \* ': not found'
m_cd == <<"c", "d", ":", " ">>  \* 'cd: '
m_nosuch == <<":", " ", "N", "o", " ", "s", "u", "c", "h", " ", "f", "i", "l", "e", " ", "o", "r", " ", "d", "i", "r", "e", "c", "t", "o", "r", "y">>  \* ': No such file or directory'
m_exec == <<"E", "r", "r", "o", "r", " ", "e", "x", "e", "c", "u", "t", "i", "n", "g", " ">>  \* 'Error executing '
m_cmdnotfound == <<":", " ", "c", "o", "m", "m", "a", "n", "d", " ", "n", "o", "t", " ", "f", "o", "u", "n", "d">>  \* ': command not found'
m_colon == <<":", " ">>  \* ': '
m_prompt == <<"$", " ">>  \* '$ '
m_twosp == <<" ", " ">>  \* '  '
m_noquote == <<"N", "o", " ", "c", "l", "o", "s", "i", "n", "g", " ", "q", "u", "o", "t", "a", "t", "i", "o", "n">>  \* 'No closing quotation'
p_bcdx == <<"/", "b", "/", "c", "d", "x">>  \* '/b/cdx'
s_c == <<"c">>  \* 'c'
s_a == <<"a">>  \* 'a'
s_b == <<"b">>  \* 'b'
s_history == <<"h", "i", "s", "t", "o", "r", "y">>  \* 'history'
s_cdx == <<"c", "d", "x">>  \* 'cdx'
s_0 == <<"0">>  \* '0'
s_7 == <<"7">>  \* '7'
s_256 == <<"2", "5", "6">>  \* '256'
p_becho == <<"/", "b", "/", "e", "c", "h", "o">>  \* '/b/echo'
p_acdx == <<"/", "a", "/", "c", "d", "x">>  \* '/a/cdx'
p_tilde_d == <<"~", "/", "d">>  \* '~/d'
m_index1 == <<" ", " ", " ", " ", "1", " ", " ">>  \* '    1  '
NL == "\n"
SP == " "
QUOTE == "'"
SLASH == "/"
BEL == "BEL"
NoText == <<>>

\* Errors raised by the operating system, as the text of the exception.
e_ENOENT == <<"E", "N", "O", "E", "N", "T">>
e_EISDIR == <<"E", "I", "S", "D", "I", "R">>
e_EEXIST == <<"E", "E", "X", "I", "S", "T">>
e_ENOEXEC == <<"E", "N", "O", "E", "X", "E", "C">>

\* ------------------------------------------------------------------------
\* str methods.
\* ------------------------------------------------------------------------
StartsWith(s, p) == Len(p) <= Len(s) /\ SubSeq(s, 1, Len(p)) = p

EndsWith(s, p) == Len(p) <= Len(s) /\ SubSeq(s, Len(s) - Len(p) + 1, Len(s)) = p

RECURSIVE JoinWith(_, _)
JoinWith(strs, sep) ==
    IF Len(strs) = 0 THEN NoText
    ELSE IF Len(strs) = 1 THEN strs[1]
    ELSE strs[1] \o sep \o JoinWith(Tail(strs), sep)

RECURSIVE LStrip(_)
LStrip(s) == IF Len(s) > 0 /\ s[1] = SP THEN LStrip(Tail(s)) ELSE s

RECURSIVE RStrip(_)
RStrip(s) ==
    IF Len(s) > 0 /\ s[Len(s)] = SP THEN RStrip(SubSeq(s, 1, Len(s) - 1)) ELSE s

Strip(s) == RStrip(LStrip(s))

\* The order of characters that sorted() uses (code points).
CodeOrder ==
    <<SP, "$", QUOTE, SLASH, "1", "2", ">", "a", "b", "c", "d", "e", "f", "h", "i",
      "l", "o", "p", "s", "t", "w", "x", "y", "~">>

Ord(c) == CHOOSE i \in 1..Len(CodeOrder) : CodeOrder[i] = c

RECURSIVE StrLess(_, _)
StrLess(a, b) ==
    IF Len(b) = 0 THEN FALSE
    ELSE IF Len(a) = 0 THEN TRUE
    ELSE IF a[1] = b[1] THEN StrLess(Tail(a), Tail(b))
    ELSE Ord(a[1]) < Ord(b[1])

RECURSIVE Sorted(_)
Sorted(strs) ==
    IF strs = {} THEN <<>>
    ELSE LET least == CHOOSE s \in strs : \A t \in strs \ {s} : StrLess(s, t)
         IN  <<least>> \o Sorted(strs \ {least})

\* ------------------------------------------------------------------------
\* shlex.split, for lines made of spaces, single quotes and plain characters.
\* ------------------------------------------------------------------------
RECURSIVE Lex(_, _, _, _, _, _)
Lex(s, i, cur, inword, inquote, acc) ==
    IF i > Len(s)
    THEN IF inquote THEN [ok |-> FALSE, parts |-> <<>>]
         ELSE [ok |-> TRUE, parts |-> IF inword THEN Append(acc, cur) ELSE acc]
    ELSE IF inquote
    THEN IF s[i] = QUOTE THEN Lex(s, i + 1, cur, TRUE, FALSE, acc)
         ELSE Lex(s, i + 1, Append(cur, s[i]), TRUE, TRUE, acc)
    ELSE IF s[i] = SP
    THEN IF inword THEN Lex(s, i + 1, NoText, FALSE, FALSE, Append(acc, cur))
         ELSE Lex(s, i + 1, NoText, FALSE, FALSE, acc)
    ELSE IF s[i] = QUOTE THEN Lex(s, i + 1, cur, TRUE, TRUE, acc)
    ELSE Lex(s, i + 1, Append(cur, s[i]), TRUE, FALSE, acc)

ShlexSplit(s) == Lex(s, 1, NoText, FALSE, FALSE, <<>>)

\* ------------------------------------------------------------------------
\* os.path and the file system: fs maps an absolute path to its entry.
\* ------------------------------------------------------------------------
DirEntry == [kind |-> "dir", data |-> NoText, x |-> TRUE]
FileEntry(data, x) == [kind |-> "file", data |-> data, x |-> x]

LastSlash(p) ==
    IF \E i \in 1..Len(p) : p[i] = SLASH
    THEN CHOOSE i \in 1..Len(p) : p[i] = SLASH /\ \A j \in (i + 1)..Len(p) : p[j] # SLASH
    ELSE 0

RECURSIVE RStripSlash(_)
RStripSlash(s) ==
    IF Len(s) > 0 /\ s[Len(s)] = SLASH THEN RStripSlash(SubSeq(s, 1, Len(s) - 1)) ELSE s

Dirname(p) ==
    LET head == SubSeq(p, 1, LastSlash(p))
    IN  IF RStripSlash(head) # NoText THEN RStripSlash(head) ELSE head

Basename(p) == SubSeq(p, LastSlash(p) + 1, Len(p))

PathJoin(a, b) ==
    IF StartsWith(b, <<SLASH>>) THEN b
    ELSE IF a = NoText \/ EndsWith(a, <<SLASH>>) THEN a \o b
    ELSE a \o <<SLASH>> \o b

\* How the operating system resolves a path of the process.
Resolve(dir, p) == PathJoin(dir, p)

Exists(fsys, abs) == abs \in DOMAIN fsys
IsDir(fsys, abs) == abs \in DOMAIN fsys /\ fsys[abs].kind = "dir"
IsFile(fsys, abs) == abs \in DOMAIN fsys /\ fsys[abs].kind = "file"
IsExecutableFile(fsys, abs) == IsFile(fsys, abs) /\ fsys[abs].x

Put(fsys, abs, entry) ==
    [q \in DOMAIN fsys \cup {abs} |-> IF q = abs THEN entry ELSE fsys[q]]

\* os.makedirs(name, exist_ok=True) on a resolved, non-empty path.
RECURSIVE MkdirP(_, _)
MkdirP(fsys, abs) ==
    IF Exists(fsys, abs) THEN [ok |-> IsDir(fsys, abs), fs |-> fsys]
    ELSE LET up == MkdirP(fsys, Dirname(abs))
         IN  IF up.ok THEN [ok |-> TRUE, fs |-> Put(up.fs, abs, DirEntry)]
             ELSE [ok |-> FALSE, fs |-> fsys]

\* os.makedirs(name, exist_ok=True): the empty name raises FileNotFoundError.
Makedirs(fsys, dir, name) ==
    IF name = NoText THEN [ok |-> FALSE, fs |-> fsys]
    ELSE MkdirP(fsys, Resolve(dir, name))

\* open(name, "w" or "a"): a directory, or a missing parent, raises OSError.
OpenFile(fsys, dir, name, append) ==
    LET abs == Resolve(dir, name)
    IN  IF IsDir(fsys, abs) \/ ~IsDir(fsys, Dirname(abs))
        THEN [ok |-> FALSE, fs |-> fsys]
        ELSE IF Exists(fsys, abs)
        THEN [ok |-> TRUE,
              fs |-> IF append THEN fsys
                     ELSE Put(fsys, abs, FileEntry(NoText, fsys[abs].x))]
        ELSE [ok |-> TRUE, fs |-> Put(fsys, abs, FileEntry(NoText, FALSE))]

\* f.write(text) on a handle freshly opened for writing or appending, then close.
WriteEnd(fsys, abs, text) ==
    Put(fsys, abs, FileEntry(fsys[abs].data \o text, fsys[abs].x))

\* The reason open() fails for a path.
OpenError(fsys, dir, name) ==
    IF IsDir(fsys, Resolve(dir, name)) THEN e_EISDIR ELSE e_ENOENT

\* ------------------------------------------------------------------------
\* Program constants and the process environment.
\* ------------------------------------------------------------------------
BUILTIN_COMMANDS == <<s_exit, s_echo, s_type, s_pwd, s_cd>>

\* os.environ["PATH"].split(os.pathsep) and $HOME.
PathDirs == <<p_a, p_b>>
HomeDir == p_home

In(x, seq) == \E i \in 1..Len(seq) : seq[i] = x

\* list.index(x): the first position holding x (positions count from 1 here).
Index(seq, x) == CHOOSE i \in 1..Len(seq) : seq[i] = x /\ \A j \in 1..(i - 1) : seq[j] # x

RECURSIVE FirstExecutable(_, _, _)
FirstExecutable(fsys, dirs, program) ==
    IF Len(dirs) = 0 THEN NoText
    ELSE IF IsExecutableFile(fsys, PathJoin(dirs[1], program))
    THEN PathJoin(dirs[1], program)
    ELSE FirstExecutable(fsys, Tail(dirs), program)

\* find_executable: the full path, or the empty text for None.
find_executable(fsys, program) == FirstExecutable(fsys, PathDirs, program)

\* os.listdir(directory).
Listdir(fsys, directory) ==
    {Basename(q) : q \in {r \in DOMAIN fsys : r # directory /\ Dirname(r) = directory}}

\* The names that lines 25-36 add to matches.
ExecutableNames(fsys, prefix) ==
    UNION {{n \in Listdir(fsys, PathDirs[i]) :
              StartsWith(n, prefix) /\ IsExecutableFile(fsys, PathJoin(PathDirs[i], n))} :
           i \in {j \in 1..Len(PathDirs) : IsDir(fsys, PathDirs[j])}}

find_all_executables_with_prefix(fsys, prefix) == Sorted(ExecutableNames(fsys, prefix))

\* ------------------------------------------------------------------------
\* Redirection extraction (main, lines 182-238).
\* ------------------------------------------------------------------------
NoDirective == [err |-> FALSE, redirect |-> NoText, append |-> FALSE, remove |-> <<>>,
                msg |-> NoText]

\* One operator found at position i: its target is the next token, if any.
Directive(parts, i, append, msg) ==
    IF i + 1 <= Len(parts)
    THEN [err |-> FALSE, redirect |-> parts[i + 1], append |-> append,
          remove |-> <<i, i + 1>>, msg |-> NoText]
    ELSE [err |-> TRUE, redirect |-> NoText, append |-> FALSE, remove |-> <<>>,
          msg |-> msg]

\* Lines 188-207: 2>> and, only when no 2>> is on the line, 2>.
StderrDirective(parts) ==
    IF In(op_err_app, parts)
    THEN Directive(parts, Index(parts, op_err_app), TRUE, m_syntax_op)
    ELSE IF In(op_err, parts)
    THEN Directive(parts, Index(parts, op_err), FALSE, m_syntax_op)
    ELSE NoDirective

\* Lines 209-232: >> or 1>> (1>> first), and only when neither is there, > or 1>.
StdoutDirective(parts) ==
    IF In(op_out_app, parts) \/ In(op_out_app1, parts)
    THEN Directive(parts,
                   IF In(op_out_app1, parts) THEN Index(parts, op_out_app1)
                   ELSE Index(parts, op_out_app),
                   TRUE, m_syntax_op)
    ELSE IF In(op_out, parts) \/ In(op_out1, parts)
    THEN Directive(parts,
                   IF In(op_out1, parts) THEN Index(parts, op_out1)
                   ELSE Index(parts, op_out),
                   FALSE, m_syntax_gt)
    ELSE NoDirective

\* list.sort(reverse=True).
RECURSIVE SortReverse(_)
SortReverse(idxs) ==
    IF Len(idxs) = 0 THEN <<>>
    ELSE LET k == CHOOSE k \in 1..Len(idxs) : \A j \in 1..Len(idxs) : idxs[j] <= idxs[k]
         IN  <<idxs[k]>> \o SortReverse(SubSeq(idxs, 1, k - 1) \o SubSeq(idxs, k + 1, Len(idxs)))

\* The loop of parts.pop(index): IndexError when an index is past the end.
RECURSIVE PopAll(_, _)
PopAll(seq, idxs) ==
    IF Len(idxs) = 0 THEN [ok |-> TRUE, seq |-> seq]
    ELSE IF idxs[1] > Len(seq) THEN [ok |-> FALSE, seq |-> seq]
    ELSE PopAll(SubSeq(seq, 1, idxs[1] - 1) \o SubSeq(seq, idxs[1] + 1, Len(seq)),
                Tail(idxs))

\* tokens_to_remove after both scans (lines 186-232).
TokensToRemove(parts) == StderrDirective(parts).remove \o StdoutDirective(parts).remove

AllPositions(parts) == [i \in 1..Len(parts) |-> i]

\* Lines 234-238, the pops applied to the tokens and to their positions.
Removed(se, so, left, kept) ==
    [outcome |-> IF left.ok THEN "ok" ELSE "IndexError", msg |-> NoText,
     parts |-> left.seq, origin |-> kept.seq,
     stdout_redirect |-> so.redirect, stderr_redirect |-> se.redirect,
     stdout_append |-> so.append, stderr_append |-> se.append]

\* What the two scans leave behind: a syntax error, or the directives and the
\* tokens that remain.
Scanned(parts, se, so, order) ==
    IF se.err
    THEN [outcome |-> "syntax", msg |-> se.msg, parts |-> parts,
          origin |-> AllPositions(parts),
          stdout_redirect |-> NoText, stderr_redirect |-> NoText,
          stdout_append |-> FALSE, stderr_append |-> FALSE]
    ELSE IF so.err
    THEN [outcome |-> "syntax", msg |-> so.msg, parts |-> parts,
          origin |-> AllPositions(parts),
          stdout_redirect |-> NoText, stderr_redirect |-> se.redirect,
          stdout_append |-> FALSE, stderr_append |-> se.append]
    ELSE Removed(se, so, PopAll(parts, order), PopAll(AllPositions(parts), order))

\* Lines 182-238 as a whole.  origin holds, for each token left, its position
\* in the tokenized line.
Extract(parts) ==
    Scanned(parts, StderrDirective(parts), StdoutDirective(parts),
            SortReverse(TokensToRemove(parts)))

\* ------------------------------------------------------------------------
\* The state of the process and of its surroundings.
\* ------------------------------------------------------------------------
VARIABLES
    status,               \* "reading" (blocked in input), "exited", "crashed"
    exit_code,            \* the exit status once the process has ended, else -1
    branch,               \* where the last pass through the loop body ended
    buffer,               \* the line being edited in the line editor
    tty,                  \* what the last step wrote to the terminal
    fs,                   \* the file system
    cwd,                  \* os.getcwd()
    command,              \* main's locals, as the last pass left them
    parts,
    origin,
    stdout_redirect,
    stderr_redirect,
    stdout_append,
    stderr_append,
    stdout_target,
    stderr_target,
    TAB_PRESSED_COUNT,    \* _TAB_PRESSED_COUNT
    LAST_COMPLETION_TEXT  \* _LAST_COMPLETION_TEXT

vars ==
    <<status, exit_code, branch, buffer, tty, fs, cwd, command, parts, origin,
      stdout_redirect, stderr_redirect, stdout_append, stderr_append, stdout_target,
      stderr_target, TAB_PRESSED_COUNT, LAST_COMPLETION_TEXT>>

\* A file object: the path it was opened on and whether it is still open.
NoHandle == [path |-> NoText, append |-> FALSE, open |-> FALSE]
Handle(abs, append) == [path |-> abs, append |-> append, open |-> TRUE]
Closed(h) == [h EXCEPT !.open = FALSE]

\* The state a pass through the loop body starts from.
Cur ==
    [status |-> status, exit_code |-> exit_code, branch |-> branch, tty |-> <<>>,
     fs |-> fs, cwd |-> cwd, command |-> command, parts |-> parts, origin |-> origin,
     stdout_redirect |-> stdout_redirect, stderr_redirect |-> stderr_redirect,
     stdout_append |-> stdout_append, stderr_append |-> stderr_append,
     stdout_target |-> stdout_target, stderr_target |-> stderr_target,
     count |-> TAB_PRESSED_COUNT]

\* sys.stdout.write(text) and print(text).
Say(S, text) == [S EXCEPT !.tty = Append(@, text)]
PrintLine(S, text) == Say(S, text \o <<NL>>)

\* "continue": back to input().  An exception nobody catches ends the process.
Continue(S, where) == [S EXCEPT !.branch = where]
Uncaught(S, exc) == [S EXCEPT !.branch = exc, !.status = "crashed", !.exit_code = 1]

\* text + ("\n" if not text.endswith("\n") else "")
WithNewline(text) == text \o (IF EndsWith(text, <<NL>>) THEN NoText ELSE <<NL>>)

\* ------------------------------------------------------------------------
\* write_output (lines 135-152).
\* ------------------------------------------------------------------------
\* with open(target, mode) as f: f.write(text + newline), op being what open did.
Written(S, target, text, op) ==
    IF op.ok
    THEN [ok |-> TRUE,
          S |-> [S EXCEPT !.fs = WriteEnd(op.fs, Resolve(S.cwd, target),
                                         WithNewline(text))]]
    ELSE [ok |-> FALSE, S |-> [S EXCEPT !.fs = op.fs]]

\* The open that follows os.makedirs, md being what makedirs did.
OpenedAfter(S, target, append, text, md) ==
    IF md.ok THEN Written(S, target, text, OpenFile(md.fs, S.cwd, target, append))
    ELSE [ok |-> FALSE, S |-> S]

\* os.makedirs(os.path.dirname(target), exist_ok=True), then the write.
WriteTo(S, target, append, text) ==
    OpenedAfter(S, target, append, text, Makedirs(S.fs, S.cwd, Dirname(target)))

write_output(S, text, stdout_to, stderr_to, append) ==
    IF stdout_to # NoText THEN WriteTo(S, stdout_to, append, text)
    ELSE IF stderr_to # NoText THEN WriteTo(S, stderr_to, append, text)
    ELSE [ok |-> TRUE, S |-> PrintLine(S, text)]

\* ------------------------------------------------------------------------
\* File and directory setup (lines 244-263).
\* ------------------------------------------------------------------------
\* Lines 248-253 and 258-263: open(target, "w").close() inside try/except.
Truncated(S, target, op) ==
    IF op.ok THEN [outcome |-> "ok", S |-> [S EXCEPT !.fs = op.fs]]
    ELSE [outcome |-> "caught",
          S |-> PrintLine(S, m_create \o target \o m_colon
                                 \o OpenError(S.fs, S.cwd, target))]

\* A setup that truncates the target in append mode too.
DirsMadeAndTruncated(S, target, append, md) ==
    IF ~md.ok THEN [outcome |-> "raised", S |-> S]
    ELSE Truncated([S EXCEPT !.fs = md.fs], target,
                   OpenFile(md.fs, S.cwd, target, FALSE))

\* Lines 246-247 and 256-257 are done (md): an exception of makedirs is not caught.
DirsMade(S, target, append, md) ==
    IF ~md.ok THEN [outcome |-> "raised", S |-> S]
    ELSE IF append THEN [outcome |-> "ok", S |-> [S EXCEPT !.fs = md.fs]]
    ELSE Truncated([S EXCEPT !.fs = md.fs], target,
                   OpenFile(md.fs, S.cwd, target, FALSE))

SetupOne(S, target, append) ==
    IF target = NoText THEN [outcome |-> "ok", S |-> S]
    ELSE DirsMade(S, target, append,
                  IF Dirname(target) # NoText
                  THEN Makedirs(S.fs, S.cwd, Dirname(target))
                  ELSE [ok |-> TRUE, fs |-> S.fs])

\* The stderr target is set up only when the stdout target went through.
SetupNext(first, target, append) ==
    IF first.outcome # "ok" THEN first ELSE SetupOne(first.S, target, append)

TargetSetup(S) ==
    SetupNext(SetupOne(S, S.stdout_redirect, S.stdout_append),
              S.stderr_redirect, S.stderr_append)

\* ------------------------------------------------------------------------
\* Builtins (lines 265-316).
\* ------------------------------------------------------------------------
Digits == <<"0", "1", "2", "3", "4", "5", "6", "7", "8", "9">>

RECURSIVE DecimalValue(_, _)
DecimalValue(s, acc) ==
    IF Len(s) = 0 THEN acc
    ELSE DecimalValue(Tail(s), 10 * acc + (Index(Digits, s[1]) - 1))

\* int(text) for texts without sign, blank or underscore: ValueError otherwise.
IntOf(s) ==
    IF Len(s) > 0 /\ \A i \in 1..Len(s) : In(s[i], Digits)
    THEN [ok |-> TRUE, val |-> DecimalValue(s, 0)]
    ELSE [ok |-> FALSE, val |-> 0]

\* An exit that takes an argument that is no integer for no argument.
ExitCodeLenient(argv) ==
    IF Len(argv) > 1 /\ IntOf(argv[2]).ok THEN IntOf(argv[2]).val ELSE 0

\* Lines 266-271.  The operating system keeps the low eight bits of the status.
ExitCode(argv) ==
    IF Len(argv) > 1 THEN IF IntOf(argv[2]).ok THEN IntOf(argv[2]).val ELSE 1 ELSE 0

Exit(S) ==
    [S EXCEPT !.branch = "exit", !.status = "exited",
              !.exit_code = ExitCode(S.parts) % 256]

\* Lines 275-278: the write of echo, op being what open did.
EchoWritten(S, msg, op) ==
    IF op.ok
    THEN Continue([S EXCEPT !.fs = WriteEnd(op.fs, Resolve(S.cwd, S.stdout_redirect),
                                           WithNewline(msg))], "echo")
    ELSE Uncaught(S, "OSError")

EchoMessage(S, msg) ==
    IF S.stdout_redirect # NoText
    THEN EchoWritten(S, msg, OpenFile(S.fs, S.cwd, S.stdout_redirect, S.stdout_append))
    ELSE Continue(PrintLine(S, msg), "echo")

\* Lines 273-281.
Echo(S) == EchoMessage(S, JoinWith(Tail(S.parts), <<SP>>))

\* A type that searches the path before it consults the builtin table.
TypeOutputPathFirst(fsys, target) ==
    IF find_executable(fsys, target) # NoText
    THEN target \o m_is \o find_executable(fsys, target)
    ELSE IF In(target, BUILTIN_COMMANDS) THEN target \o m_builtin
    ELSE target \o m_notfound

\* The text that type prints for a name (lines 286-292).
TypeOutput(fsys, target) ==
    IF In(target, BUILTIN_COMMANDS) THEN target \o m_builtin
    ELSE IF find_executable(fsys, target) # NoText
    THEN target \o m_is \o find_executable(fsys, target)
    ELSE target \o m_notfound

\* After write_output: an exception it raised is not caught.
OutputDone(w, where) == IF w.ok THEN Continue(w.S, where) ELSE Uncaught(w.S, "OSError")

\* Lines 284-295.
Type(S) ==
    IF Len(S.parts) < 2 THEN Continue(S, "type")
    ELSE OutputDone(write_output(S, TypeOutput(S.fs, S.parts[2]), S.stdout_redirect,
                                 S.stderr_redirect, S.stdout_append), "type")

\* Lines 298-301.
Pwd(S) ==
    OutputDone(write_output(S, S.cwd, S.stdout_redirect, S.stderr_redirect,
                            S.stdout_append), "pwd")

\* os.path.expanduser for "~" and "~/...".
ExpandUser(p) == HomeDir \o Tail(p)

\* The working directory after os.chdir(abs): no trailing slash.
AfterChdir(abs) == IF RStripSlash(abs) = NoText THEN p_root ELSE RStripSlash(abs)

\* A cd that does not test its target before it changes directory.
ChangeDirUnchecked(S, target_dir) ==
    Continue([S EXCEPT !.cwd = AfterChdir(Resolve(S.cwd, target_dir))], "cd")

\* Lines 309-316.  Every directory of the model can be entered, so os.chdir
\* does not raise.
ChangeDir(S, target_dir) ==
    IF ~IsDir(S.fs, AfterChdir(Resolve(S.cwd, target_dir)))
    THEN Continue(PrintLine(S, m_cd \o target_dir \o m_nosuch), "cd")
    ELSE Continue([S EXCEPT !.cwd = AfterChdir(Resolve(S.cwd, target_dir))], "cd")

\* Lines 304-316.
Cd(S) ==
    IF Len(S.parts) < 2 THEN Continue(S, "cd")
    ELSE ChangeDir(S, IF S.parts[2] = s_tilde \/ StartsWith(S.parts[2], s_tilde_slash)
                      THEN ExpandUser(S.parts[2])
                      ELSE S.parts[2])

\* ------------------------------------------------------------------------
\* External programs (lines 319-343).
\* ------------------------------------------------------------------------
\* What a child does: whether it could be started, what it writes to each of its
\* streams, and which stream it writes first.
ChildRuns ==
    [spawned : BOOLEAN, out : {NoText, <<"x", NL>>}, err : {NoText, <<"x", NL>>},
     err_first : BOOLEAN]

\* The bytes of a file after one write through a handle at its first offset.
WrittenThrough(old, h, data) ==
    IF h.append THEN old \o data ELSE data \o SubSeq(old, Len(data) + 1, Len(old))

\* One write of the child through a handle, or to the terminal it inherits.  A
\* handle opened with "w" writes from offset 0, one opened with "a" at the end.
ChildWrite(S, h, data) ==
    IF data = NoText THEN S
    ELSE IF ~h.open THEN Say(S, data)
    ELSE [S EXCEPT !.fs = Put(S.fs, h.path,
                              FileEntry(WrittenThrough(S.fs[h.path].data, h, data),
                                        S.fs[h.path].x))]

\* The two close() calls (lines 337-340).
CloseBoth(S) == [S EXCEPT !.stdout_target = Closed(@), !.stderr_target = Closed(@)]

\* The child's second write.
SecondWrite(S, run) ==
    IF run.err_first THEN ChildWrite(S, S.stdout_target, run.out)
    ELSE ChildWrite(S, S.stderr_target, run.err)

\* The child's first write.
FirstWrite(S, run) ==
    IF run.err_first THEN ChildWrite(S, S.stderr_target, run.err)
    ELSE ChildWrite(S, S.stdout_target, run.out)

\* subprocess.run with the two handles, then the two close() calls.
RunChild(S, run) == CloseBoth(SecondWrite(FirstWrite(S, run), run))

\* The except branch of lines 341-342.
LaunchFailed(S, why) ==
    Continue(PrintLine(S, m_exec \o S.parts[1] \o m_colon \o why), "launch_failed")

\* Lines 330-340: both targets are open.
Spawn(S, run) ==
    IF run.spawned THEN Continue(RunChild(S, run), "external")
    ELSE LaunchFailed(S, e_ENOEXEC)

\* Lines 325-326, e being what open did.  Binding stderr_target drops the file
\* object it held, which closes it.
StderrOpened(S, e, run) ==
    IF e.ok
    THEN Spawn([S EXCEPT !.fs = e.fs,
                         !.stderr_target =
                             IF S.stderr_redirect # NoText
                             THEN Handle(Resolve(S.cwd, S.stderr_redirect), S.stderr_append)
                             ELSE NoHandle], run)
    ELSE LaunchFailed(S, OpenError(S.fs, S.cwd, S.stderr_redirect))

OpenStderr(S, run) ==
    StderrOpened(S,
                 IF S.stderr_redirect # NoText
                 THEN OpenFile(S.fs, S.cwd, S.stderr_redirect, S.stderr_append)
                 ELSE [ok |-> TRUE, fs |-> S.fs],
                 run)

\* Line 323, o being what open did.  Binding stdout_target drops the file object
\* it held, which closes it.
StdoutOpened(S, o, run) ==
    IF o.ok
    THEN OpenStderr([S EXCEPT !.fs = o.fs,
                              !.stdout_target =
                                  IF S.stdout_redirect # NoText
                                  THEN Handle(Resolve(S.cwd, S.stdout_redirect),
                                              S.stdout_append)
                                  ELSE NoHandle], run)
    ELSE LaunchFailed(S, OpenError(S.fs, S.cwd, S.stdout_redirect))

\* Lines 321-343.
External(S, run) ==
    StdoutOpened(S,
                 IF S.stdout_redirect # NoText
                 THEN OpenFile(S.fs, S.cwd, S.stdout_redirect, S.stdout_append)
                 ELSE [ok |-> TRUE, fs |-> S.fs],
                 run)

\* Lines 346-347.
NotFound(S) == Continue(PrintLine(S, S.command \o m_cmdnotfound), "not_found")

\* Lines 265-347: the command named by the first token left.
Dispatch(S, run) ==
    IF S.parts[1] = s_exit THEN Exit(S)
    ELSE IF S.parts[1] = s_echo THEN Echo(S)
    ELSE IF S.parts[1] = s_type THEN Type(S)
    ELSE IF S.parts[1] = s_pwd THEN Pwd(S)
    ELSE IF S.parts[1] = s_cd THEN Cd(S)
    ELSE IF find_executable(S.fs, S.parts[1]) # NoText THEN External(S, run)
    ELSE NotFound(S)

\* ------------------------------------------------------------------------
\* The read loop (lines 158-347).
\* ------------------------------------------------------------------------
\* A loop body that tests for the empty token list after the target setup.
NoTokensLeftAfterSetup(S) == Continue(TargetSetup(S).S, "no_tokens")

\* Lines 240-241: nothing is left of the line once the redirections are taken out.
NoTokensLeft(S) == Continue(S, "no_tokens")

\* Lines 244-347, prep being what the target setup did.
SetupDone(prep, run) ==
    IF prep.outcome = "raised" THEN Uncaught(prep.S, "OSError")
    ELSE IF prep.outcome = "caught" THEN Continue(prep.S, "setup_failed")
    ELSE Dispatch(prep.S, run)

\* Lines 188-347 with the locals of lines 182-238 set (S) from the extraction.
Extracted(S, ex, run) ==
    IF ex.outcome = "syntax" THEN Continue(PrintLine(S, ex.msg), "syntax_error")
    ELSE IF ex.outcome = "IndexError" THEN Uncaught(S, "IndexError")
    ELSE IF ex.parts = <<>> THEN NoTokensLeft(S)
    ELSE SetupDone(TargetSetup(S), run)

\* Lines 178-238: the counter reset and the locals the extraction assigns.
WithLocals(S, ex) ==
    [S EXCEPT !.count = 0, !.parts = ex.parts, !.origin = ex.origin,
              !.stdout_redirect = ex.stdout_redirect,
              !.stderr_redirect = ex.stderr_redirect,
              !.stdout_append = ex.stdout_append,
              !.stderr_append = ex.stderr_append]

ExtractFrom(S, ex, run) == Extracted(WithLocals(S, ex), ex, run)

\* Lines 170-176, sp being what shlex.split did.
Split(S, sp, run) ==
    IF ~sp.ok THEN Continue(PrintLine(S, m_parse \o m_noquote), "parse_error")
    ELSE IF sp.parts = <<>> THEN Continue([S EXCEPT !.parts = <<>>], "empty")
    ELSE ExtractFrom(S, Extract(sp.parts), run)

\* Lines 168-169.
Stripped(S, text, run) ==
    IF text = NoText THEN Continue([S EXCEPT !.command = text], "empty")
    ELSE Split([S EXCEPT !.command = text], ShlexSplit(text), run)

\* One pass through the body of "while True" for the line that input() returned.
MainLoopBody(S, line, run) == Stripped(S, Strip(line), run)

\* A child that writes nothing: the choice for lines that start no child.
QuietRun == [spawned |-> TRUE, out |-> NoText, err |-> NoText, err_first |-> FALSE]

RunsFor(S, line) ==
    IF MainLoopBody(S, line, QuietRun).branch \in {"external", "launch_failed"}
    THEN ChildRuns
    ELSE {QuietRun}

\* ------------------------------------------------------------------------
\* Bounds.
\* ------------------------------------------------------------------------
MaxLen == 4        \* tokens of a typed line
MaxBuffer == 2     \* characters typed one by one into a line
MaxFileLines == 2  \* lines of text in a file that a command may leave behind

NewLines(data) == Cardinality({i \in 1..Len(data) : data[i] = NL})

FilesFit(fsys) == \A q \in DOMAIN fsys : NewLines(fsys[q].data) <= MaxFileLines

\* ------------------------------------------------------------------------
\* Actions.
\* ------------------------------------------------------------------------
\* The process and its surroundings as a pass through the loop body leaves them.
Becomes(R) ==
    /\ FilesFit(R.fs)
    /\ status' = R.status
    /\ exit_code' = R.exit_code
    /\ branch' = R.branch
    /\ tty' = R.tty
    /\ fs' = R.fs
    /\ cwd' = R.cwd
    /\ command' = R.command
    /\ parts' = R.parts
    /\ origin' = R.origin
    /\ stdout_redirect' = R.stdout_redirect
    /\ stderr_redirect' = R.stderr_redirect
    /\ stdout_append' = R.stdout_append
    /\ stderr_append' = R.stderr_append
    /\ stdout_target' = R.stdout_target
    /\ stderr_target' = R.stderr_target
    /\ TAB_PRESSED_COUNT' = R.count

\* The user accepts the line: input() returns it and the loop body runs.
Enter ==
    /\ status = "reading"
    /\ \E run \in RunsFor(Cur, buffer) : Becomes(MainLoopBody(Cur, buffer, run))
    /\ buffer' = NoText
    /\ UNCHANGED LAST_COMPLETION_TEXT

\* Lines 164-166: an interrupt while input() waits.
Interrupt ==
    /\ status = "reading"
    /\ tty' = <<<<NL>>>>
    /\ branch' = "interrupt"
    /\ buffer' = NoText
    /\ UNCHANGED <<status, exit_code, fs, cwd, command, parts, origin, stdout_redirect,
                   stderr_redirect, stdout_append, stderr_append, stdout_target,
                   stderr_target, TAB_PRESSED_COUNT, LAST_COMPLETION_TEXT>>

\* Lines 162-163: end of input at an empty line; main returns.
Eof ==
    /\ status = "reading"
    /\ buffer = NoText
    /\ status' = "exited"
    /\ exit_code' = 0
    /\ branch' = "eof"
    /\ tty' = <<>>
    /\ UNCHANGED <<buffer, fs, cwd, command, parts, origin, stdout_redirect,
                   stderr_redirect, stdout_append, stderr_append, stdout_target,
                   stderr_target, TAB_PRESSED_COUNT, LAST_COMPLETION_TEXT>>

\* ------------------------------------------------------------------------
\* Initial states.
\* ------------------------------------------------------------------------
FsBare ==
    (p_root :> DirEntry) @@ (p_w :> DirEntry) @@ (p_home :> DirEntry)
        @@ (p_a :> DirEntry) @@ (p_b :> DirEntry)
        @@ (p_als :> FileEntry(NoText, FALSE)) @@ (p_bls :> FileEntry(NoText, TRUE))
        @@ (p_bcdx :> FileEntry(NoText, TRUE))

FsPopulated ==
    FsBare @@ (p_wf :> FileEntry(s_old, FALSE)) @@ (p_wd :> DirEntry)
        @@ (p_wdf :> FileEntry(s_old, FALSE))

\* The process right after setup_readline(), the user having typed buf.
Started(buf, fsys) ==
    /\ status = "reading"
    /\ exit_code = -1
    /\ branch = "start"
    /\ buffer = buf
    /\ tty = <<>>
    /\ fs = fsys
    /\ cwd = p_w
    /\ command = NoText
    /\ parts = <<>>
    /\ origin = <<>>
    /\ stdout_redirect = NoText
    /\ stderr_redirect = NoText
    /\ stdout_append = FALSE
    /\ stderr_append = FALSE
    /\ stdout_target = NoHandle
    /\ stderr_target = NoHandle
    /\ TAB_PRESSED_COUNT = 0
    /\ LAST_COMPLETION_TEXT = NoText

Operators == {op_err_app, op_err, op_out_app, op_out_app1, op_out, op_out1}

LineTokens == {s_echo, s_type, s_pwd, s_cd, s_ls, s_exit, p_f, p_df, p_d} \cup Operators

TokenLists(tokens, n) == UNION {[1..k -> tokens] : k \in 1..n}

\* One typed line of at most MaxLen tokens, in a bare or a populated directory.
InitLine ==
    \E toks \in TokenLists(LineTokens, MaxLen) : \E fsys \in {FsBare, FsPopulated} :
        Started(JoinWith(toks, <<SP>>), fsys)

NextLine == Enter \/ Interrupt \/ Eof

SpecLine == InitLine /\ [][NextLine]_vars

\* ------------------------------------------------------------------------
\* Completion (lines 41-101).
\* ------------------------------------------------------------------------
\* Lines 52-59: all_matches.
all_matches(fsys, text) ==
    Sorted({BUILTIN_COMMANDS[i] : i \in {j \in 1..Len(BUILTIN_COMMANDS) :
                                           StartsWith(BUILTIN_COMMANDS[j], text)}}
           \cup {m \in ExecutableNames(fsys, text) : TRUE})

\* Lines 48-49: the counter after shell_completer(text, state).
CompleterCount(count, last, text) == IF text # last THEN 0 ELSE count

\* A hook that shows the list on the first request and rings on the second.
HookWritesListFirst(n, last, matches) ==
    IF n = 1
    THEN << <<NL>>, JoinWith(matches, m_twosp) \o <<NL>>, m_prompt \o last >>
    ELSE IF n = 2 THEN << <<BEL>> >>
    ELSE <<>>

\* Lines 78-98: what display_matches_hook writes once the counter is n.
HookWrites(n, last, matches) ==
    IF n = 1 THEN << <<BEL>> >>
    ELSE IF n = 2
    THEN << <<NL>>, JoinWith(matches, m_twosp) \o <<NL>>, m_prompt \o last >>
    ELSE <<>>

\* A hook that never takes the counter back to zero.
HookCountNoReset(n) == n

\* Lines 100-101.
HookCount(n) == IF n > 2 THEN 0 ELSE n

\* The characters at which the line editor starts the word to complete.
WordBreaks == {SP, "$", QUOTE, SLASH, ">", "~"}

WordStart(line) ==
    IF \E i \in 1..Len(line) : line[i] \in WordBreaks
    THEN 1 + (CHOOSE i \in 1..Len(line) :
                 line[i] \in WordBreaks /\ \A j \in (i + 1)..Len(line) : line[j] \notin WordBreaks)
    ELSE 1

\* The word the line editor hands to the completer, and what precedes it.
CompletionWord(line) == SubSeq(line, WordStart(line), Len(line))
BeforeWord(line) == SubSeq(line, 1, WordStart(line) - 1)

RECURSIVE CommonPrefix(_, _)
CommonPrefix(a, b) ==
    IF Len(a) > 0 /\ Len(b) > 0 /\ a[1] = b[1]
    THEN <<a[1]>> \o CommonPrefix(Tail(a), Tail(b))
    ELSE NoText

RECURSIVE LongestCommonPrefix(_)
LongestCommonPrefix(strs) ==
    IF Len(strs) = 1 THEN strs[1]
    ELSE CommonPrefix(strs[1], LongestCommonPrefix(Tail(strs)))

\* A completion request with the matches the completer returned: the line editor
\* rings for no match, inserts the only match or the longer common prefix, and
\* calls display_matches_hook when the word cannot be completed further.
Completed(text, matches, count) ==
    IF Len(matches) = 0
    THEN [buffer |-> buffer, tty |-> << <<BEL>> >>, count |-> count]
    ELSE IF Len(matches) = 1
    THEN [buffer |-> BeforeWord(buffer) \o matches[1] \o <<SP>>, tty |-> <<>>,
          count |-> count]
    ELSE IF LongestCommonPrefix(matches) # text
    THEN [buffer |-> BeforeWord(buffer) \o LongestCommonPrefix(matches), tty |-> <<>>,
          count |-> count]
    ELSE [buffer |-> buffer, tty |-> HookWrites(count + 1, text, matches),
          count |-> HookCount(count + 1)]

TabDone(text, done) ==
    /\ LAST_COMPLETION_TEXT' = text
    /\ buffer' = done.buffer
    /\ tty' = done.tty
    /\ TAB_PRESSED_COUNT' = done.count

\* The user asks for completion of the word under the cursor.
Tab ==
    /\ status = "reading"
    /\ UNCHANGED <<status, exit_code, branch, fs, cwd, command, parts, origin,
                   stdout_redirect, stderr_redirect, stdout_append, stderr_append,
                   stdout_target, stderr_target>>
    /\ TabDone(CompletionWord(buffer),
               Completed(CompletionWord(buffer), all_matches(fs, CompletionWord(buffer)),
                         CompleterCount(TAB_PRESSED_COUNT, LAST_COMPLETION_TEXT,
                                        CompletionWord(buffer))))

TypedChars == {"e", SP, QUOTE}

\* The user types one character at the end of the line.
TypeChar ==
    /\ status = "reading"
    /\ Len(buffer) < MaxBuffer
    /\ \E c \in TypedChars : buffer' = Append(buffer, c)
    /\ tty' = <<>>
    /\ UNCHANGED <<status, exit_code, branch, fs, cwd, command, parts, origin,
                   stdout_redirect, stderr_redirect, stdout_append, stderr_append,
                   stdout_target, stderr_target, TAB_PRESSED_COUNT,
                   LAST_COMPLETION_TEXT>>

\* The user deletes the last character of the line.
Backspace ==
    /\ status = "reading"
    /\ Len(buffer) > 0
    /\ buffer' = SubSeq(buffer, 1, Len(buffer) - 1)
    /\ tty' = <<>>
    /\ UNCHANGED <<status, exit_code, branch, fs, cwd, command, parts, origin,
                   stdout_redirect, stderr_redirect, stdout_append, stderr_append,
                   stdout_target, stderr_target, TAB_PRESSED_COUNT,
                   LAST_COMPLETION_TEXT>>

InitComp == Started(NoText, FsPopulated)

NextComp == TypeChar \/ Backspace \/ Tab \/ Enter \/ Interrupt \/ Eof

SpecComp == InitComp /\ [][NextComp]_vars

\* ------------------------------------------------------------------------
\* A session of several lines.
\* ------------------------------------------------------------------------
ReplCommands == {<<s_echo, s_a>>, <<s_echo, s_b>>}

ReplStdout ==
    {<<op_out, p_f>>, <<op_out1, p_f>>, <<op_out_app, p_f>>, <<op_out_app1, p_f>>}

ReplStderr == {<<>>, <<op_err, p_f>>, <<op_err_app, p_f>>}

\* echo lines that all redirect standard output to the file f
ReplLines ==
    {JoinWith(c \o o \o e, <<SP>>) : c \in ReplCommands, o \in ReplStdout, e \in ReplStderr}

\* The user types a whole line at an empty prompt.
TypeLine ==
    /\ status = "reading"
    /\ buffer = NoText
    /\ buffer' \in ReplLines
    /\ tty' = <<>>
    /\ UNCHANGED <<status, exit_code, branch, fs, cwd, command, parts, origin,
                   stdout_redirect, stderr_redirect, stdout_append, stderr_append,
                   stdout_target, stderr_target, TAB_PRESSED_COUNT,
                   LAST_COMPLETION_TEXT>>

InitRepl == \E fsys \in {FsBare, FsPopulated} : Started(NoText, fsys)

NextRepl == TypeLine \/ Enter \/ Interrupt \/ Eof

SpecRepl == InitRepl /\ [][NextRepl]_vars

\* ------------------------------------------------------------------------
\* Lines made of redirection operators and targets, after "echo" or alone.
\* ------------------------------------------------------------------------
MaxDirectives == 4  \* operator and target tokens of such a line

DirectiveTokens == Operators \cup {p_f}

InitDirectives ==
    \E head \in {<<>>, <<s_echo>>} : \E toks \in TokenLists(DirectiveTokens, MaxDirectives) :
        \E fsys \in {FsBare, FsPopulated} : Started(JoinWith(head \o toks, <<SP>>), fsys)

SpecDirectives == InitDirectives /\ [][NextLine]_vars

\* ------------------------------------------------------------------------
\* Vocabulary of the properties.
\* ------------------------------------------------------------------------
\* The branches in which the loop body handed the tokens to a command.
DispatchBranches ==
    {"exit", "echo", "type", "pwd", "cd", "external", "launch_failed", "not_found"}

\* The positions of the operators that a target follows, and of those targets.
RECURSIVE PairedPositions(_, _)
PairedPositions(toks, i) ==
    IF i > Len(toks) THEN {}
    ELSE IF toks[i] \in Operators /\ i + 1 <= Len(toks) /\ toks[i + 1] \notin Operators
    THEN {i, i + 1} \cup PairedPositions(toks, i + 2)
    ELSE PairedPositions(toks, i + 1)

Range(seq) == {seq[i] : i \in 1..Len(seq)}

IsPrefix(a, b) == Len(a) <= Len(b) /\ SubSeq(b, 1, Len(a)) = a

\* The content of a file, nothing when there is no such file.
Content(fsys, abs) == IF IsFile(fsys, abs) THEN fsys[abs].data ELSE NoText

LastIsOperator(sp) == sp.ok /\ sp.parts # <<>> /\ sp.parts[Len(sp.parts)] \in Operators

TrailingOperator(line) == LastIsOperator(ShlexSplit(Strip(line)))

AllStripped(ex) == ex.outcome = "ok" /\ ex.parts = <<>>

NothingButDirectives(sp) == sp.ok /\ sp.parts # <<>> /\ AllStripped(Extract(sp.parts))

\* The line has tokens, and the extraction of its redirections leaves none.
ZeroTokensLeft(line) == NothingButDirectives(ShlexSplit(Strip(line)))

\* ------------------------------------------------------------------------
\* C1: the process ends only through the exit command or the end of input;
\* after every other line it is reading the next line.
\* ------------------------------------------------------------------------
C1_EndsOnlyOnExitOrEof == status # "reading" => branch \in {"exit", "eof"}

\* ------------------------------------------------------------------------
\* C2: when a command is dispatched for a line in which a target follows every
\* redirection operator, no token that stood at the position of an operator
\* or of its target is among the tokens of the command.
\* ------------------------------------------------------------------------
EveryOperatorHasTarget(toks) ==
    \A i \in 1..Len(toks) :
        toks[i] \in Operators => i + 1 <= Len(toks) /\ toks[i + 1] \notin Operators

C2_NoDirectiveTokenDispatched ==
    (branch \in DispatchBranches /\ EveryOperatorHasTarget(ShlexSplit(command).parts)) =>
        PairedPositions(ShlexSplit(command).parts, 1) \cap Range(origin) = {}

\* ------------------------------------------------------------------------
\* C3: after echo, type with an argument or pwd ran with an overwrite
\* redirection of its output, the target is a file that holds exactly the
\* text of the builtin and one newline.
\* ------------------------------------------------------------------------
BuiltinText ==
    IF parts[1] = s_echo THEN JoinWith(Tail(parts), <<SP>>)
    ELSE IF parts[1] = s_pwd THEN cwd
    ELSE TypeOutput(fs, parts[2])

OutputBuiltinRan ==
    /\ branch \in {"echo", "type", "pwd", "OSError"}
    /\ parts # <<>>
    /\ \/ parts[1] \in {s_echo, s_pwd}
       \/ parts[1] = s_type /\ Len(parts) >= 2

C3_OverwriteTargetHoldsOutput ==
    (OutputBuiltinRan /\ stdout_redirect # NoText /\ ~stdout_append) =>
        /\ IsFile(fs, Resolve(cwd, stdout_redirect))
        /\ fs[Resolve(cwd, stdout_redirect)].data = BuiltinText \o <<NL>>

\* ------------------------------------------------------------------------
\* C4: a step whose line carries an append directive, and no overwrite
\* directive for the same file, leaves the former content of the target of
\* that directive as a prefix of its content.
\* ------------------------------------------------------------------------
KeepsContent(abs) ==
    IsFile(fs, abs) => IsFile(fs', abs) /\ IsPrefix(fs[abs].data, fs'[abs].data)

C4_AppendKeepsContent ==
    [][/\ (stdout_redirect' # NoText /\ stdout_append'
             /\ ~(stderr_redirect' = stdout_redirect' /\ ~stderr_append'))
          => KeepsContent(Resolve(cwd, stdout_redirect'))
       /\ (stderr_redirect' # NoText /\ stderr_append'
             /\ ~(stdout_redirect' = stderr_redirect' /\ ~stdout_append'))
          => KeepsContent(Resolve(cwd, stderr_redirect'))]_vars

\* ------------------------------------------------------------------------
\* C5: for a word with two or more candidates none of which extends it, a
\* completion request made in the idle state rings the bell and prints
\* nothing else, and the request that follows it for the same word prints a
\* newline, the candidates in sorted order joined by two spaces, and the
\* prompt with the word.
\* ------------------------------------------------------------------------
Candidates(fsys, text) ==
    {c \in Range(BUILTIN_COMMANDS) : StartsWith(c, text)}
        \cup {m \in ExecutableNames(fsys, text) : TRUE}

\* The sequence lists the set in ascending order, each member once.
Lists(seq, set) ==
    /\ Range(seq) = set
    /\ \A i \in 1..(Len(seq) - 1) : StrLess(seq[i], seq[i + 1])

Ambiguous(fsys, text) ==
    /\ Len(all_matches(fsys, text)) >= 2
    /\ LongestCommonPrefix(all_matches(fsys, text)) = text

ListPrinted(out, fsys, text) ==
    /\ Len(out) = 3
    /\ out[1] = <<NL>>
    /\ \E l \in {all_matches(fsys, text)} :
          Lists(l, Candidates(fsys, text)) /\ out[2] = JoinWith(l, <<SP, SP>>) \o <<NL>>
    /\ out[3] = <<"$", SP>> \o text

CompletionTexts == {NoText, <<"e">>, s_c, s_cd}

FirstRequestRings(count, last, fsys, text) ==
    HookWrites(CompleterCount(count, last, text) + 1, text, all_matches(fsys, text))
        = << <<BEL>> >>

C6_IdleAtEveryPrompt ==
    [][((Enter \/ Interrupt) /\ status' = "reading") =>
          \A text \in CompletionTexts :
              Ambiguous(fs', text) =>
                  FirstRequestRings(TAB_PRESSED_COUNT', LAST_COMPLETION_TEXT', fs', text)]_vars

\* ------------------------------------------------------------------------
\* C7: a line whose last token is a redirection operator is answered with the
\* syntax-error message and nothing else: no command runs and the file system
\* stays as it was.
\* ------------------------------------------------------------------------
C7_TrailingOperatorRejected ==
    [][(Enter /\ TrailingOperator(buffer)) =>
          /\ branch' = "syntax_error"
          /\ tty' \in {<<m_syntax_op \o <<NL>>>>, <<m_syntax_gt \o <<NL>>>>}
          /\ fs' = fs]_vars

\* ------------------------------------------------------------------------
\* C8: whenever the process is about to read a line, neither file object of
\* the external launch is open.
\* ------------------------------------------------------------------------
C8_NoHandleOpenAtPrompt ==
    status = "reading" => ~stdout_target.open /\ ~stderr_target.open

\* ------------------------------------------------------------------------
\* C9 (as stated): a line of which the extraction leaves no token writes
\* nothing and runs no command, and the target of each overwrite directive is
\* an empty file afterwards.
\* ------------------------------------------------------------------------
EmptyFileAfter(target) ==
    IsFile(fs', Resolve(cwd, target)) /\ fs'[Resolve(cwd, target)].data = NoText

C9_TargetsPreparedWithoutCommand ==
    [][(Enter /\ ZeroTokensLeft(buffer)) =>
          /\ tty' = <<>>
          /\ branch' = "no_tokens"
          /\ (stdout_redirect' # NoText /\ ~stdout_append') => EmptyFileAfter(stdout_redirect')
          /\ (stderr_redirect' # NoText /\ ~stderr_append') => EmptyFileAfter(stderr_redirect')]_vars

\* ------------------------------------------------------------------------
\* C9 (amended): a line of which the extraction leaves no token writes
\* nothing, runs no command and prepares no target: the file system stays as
\* it was and the process reads the next line.
\* ------------------------------------------------------------------------
C9_NothingDoneWithoutCommand ==
    [][(Enter /\ ZeroTokensLeft(buffer)) =>
          /\ tty' = <<>>
          /\ branch' = "no_tokens"
          /\ status' = "reading"
          /\ fs' = fs]_vars

\* "> f" was entered where there is no f, and there is none afterwards.
C9_TargetNotCreated ==
    /\ branch = "no_tokens"
    /\ command = <<">", SP, "f">>
    /\ stdout_redirect = p_f
    /\ ~stdout_append
    /\ ~Exists(fs, p_wf)

\* ------------------------------------------------------------------------
\* C10 (as stated): every echo line that redirects its output to a file
\* leaves in it, after an overwrite, exactly the text of the line and a
\* newline, and after an append, the former content followed by that text
\* and a newline.
\* ------------------------------------------------------------------------
EchoRedirected == Enter /\ branch' = "echo" /\ stdout_redirect' # NoText

EchoText == JoinWith(Tail(parts'), <<SP>>) \o <<NL>>

LastOverwriteThenAppends ==
    Content(fs', Resolve(cwd, stdout_redirect')) =
        IF stdout_append' THEN Content(fs, Resolve(cwd, stdout_redirect')) \o EchoText
        ELSE EchoText

C10_OverwriteThenAppends == [][EchoRedirected => LastOverwriteThenAppends]_vars

\* ------------------------------------------------------------------------
\* C10 (amended): the same, for the lines that do not also redirect the
\* error stream to that file in overwrite mode.
\* ------------------------------------------------------------------------
ErrorStreamOverwritesIt == stderr_redirect' = stdout_redirect' /\ ~stderr_append'

C10_OverwriteThenAppendsUnlessErrTruncates ==
    [][(EchoRedirected /\ ~ErrorStreamOverwritesIt) => LastOverwriteThenAppends]_vars

\* "echo a > f" and then "echo b >> f" were entered.
C10_HelloWorld ==
    /\ branch = "echo"
    /\ stdout_append
    /\ parts = <<s_echo, s_b>>
    /\ Content(fs, p_wf) = <<"a", NL, "b", NL>>

\* ------------------------------------------------------------------------
\* C11: after the bell and the list for an ambiguous word, a third request
\* for the same word rings the bell and writes nothing else, and the request
\* after it would print the list.
\* ------------------------------------------------------------------------
NextRequestWrites(count, last, fsys, text) ==
    HookWrites(CompleterCount(count, last, text) + 1, text, all_matches(fsys, text))

C11_ThirdRequestRings ==
    [][(Tab /\ Ambiguous(fs, CompletionWord(buffer))
          /\ TAB_PRESSED_COUNT = 2 /\ LAST_COMPLETION_TEXT = CompletionWord(buffer)
          /\ ListPrinted(tty, fs, CompletionWord(buffer)))
       => /\ tty' = << <<BEL>> >>
          /\ ListPrinted(NextRequestWrites(TAB_PRESSED_COUNT', LAST_COMPLETION_TEXT', fs',
                                           CompletionWord(buffer)),
                         fs', CompletionWord(buffer))]_vars

\* ------------------------------------------------------------------------
\* C12: every keystroke that changes the word being completed leaves the
\* completion state idle: a request for any ambiguous word, the former one
\* included, would then ring the bell and print no list.
\* ------------------------------------------------------------------------
C12_TextChangeResets ==
    [][((TypeChar \/ Backspace) /\ CompletionWord(buffer') # CompletionWord(buffer))
       => \A text \in CompletionTexts \cup {CompletionWord(buffer)} :
              Ambiguous(fs', text) =>
                  FirstRequestRings(TAB_PRESSED_COUNT', LAST_COMPLETION_TEXT', fs', text)]_vars

\* ------------------------------------------------------------------------
\* C19: when a request prints the candidate list, what it writes after the
\* list is the prompt followed by the whole line typed so far.
\* ------------------------------------------------------------------------
C19_WholeLineRedrawn ==
    [][(Tab /\ Len(tty') = 3 /\ tty'[1] = <<NL>>) => tty'[3] = <<"$", SP>> \o buffer]_vars

\* ------------------------------------------------------------------------
\* C20: whenever the process waits for a keystroke or a line, the counter of
\* consecutive requests is 0, 1 or 2.
\* ------------------------------------------------------------------------
C20_CounterInRange == status = "reading" => TAB_PRESSED_COUNT \in {0, 1, 2}

\* "e" was asked for three times in the first line: the counter went to 3 in
\* the hook and is back at 0.
C20_BackToZero ==
    /\ status = "reading"
    /\ branch = "start"
    /\ buffer = <<"e">>
    /\ LAST_COMPLETION_TEXT = <<"e">>
    /\ TAB_PRESSED_COUNT = 0
    /\ tty = <<>>

\* ------------------------------------------------------------------------
\* C17: for every line that tokenizes, the positions that the two scans mark
\* for removal are all different, and the removal does not fail.
\* ------------------------------------------------------------------------
NoDuplicates(seq) == \A i, j \in 1..Len(seq) : i # j => seq[i] # seq[j]

TokensOf(line) == ShlexSplit(Strip(line)).parts

Tokenizes(line) == ShlexSplit(Strip(line)).ok /\ TokensOf(line) # <<>>

C17_NoPositionClaimedTwice ==
    [][(Enter /\ Tokenizes(buffer))
       => /\ NoDuplicates(TokensToRemove(TokensOf(buffer)))
          /\ branch' # "IndexError"]_vars

\* ------------------------------------------------------------------------
\* C18: in a line where a target follows every operator, the directive taken
\* for a class of operators is the leftmost token of that class together with
\* the token after it: both are removed and the latter is the target.
\* ------------------------------------------------------------------------
Leftmost(toks, class) ==
    CHOOSE i \in 1..Len(toks) : toks[i] \in class /\ \A j \in 1..(i - 1) : toks[j] \notin class

HonouredAt(toks, i, redirect, left) ==
    /\ i \notin Range(left)
    /\ (i + 1) \notin Range(left)
    /\ redirect = toks[i + 1]

LeftmostHonoured(toks, class, redirect, left) ==
    HonouredAt(toks, Leftmost(toks, class), redirect, left)

C18_LeftmostOfClassHonoured ==
    [][(Enter /\ Tokenizes(buffer) /\ EveryOperatorHasTarget(TokensOf(buffer)))
       => /\ (stderr_redirect' # NoText /\ stderr_append')
             => LeftmostHonoured(TokensOf(buffer), {op_err_app}, stderr_redirect', origin')
          /\ (stderr_redirect' # NoText /\ ~stderr_append')
             => LeftmostHonoured(TokensOf(buffer), {op_err}, stderr_redirect', origin')
          /\ (stdout_redirect' # NoText /\ stdout_append')
             => LeftmostHonoured(TokensOf(buffer), {op_out_app, op_out_app1},
                                 stdout_redirect', origin')
          /\ (stdout_redirect' # NoText /\ ~stdout_append')
             => LeftmostHonoured(TokensOf(buffer), {op_out, op_out1},
                                 stdout_redirect', origin')]_vars

\* ------------------------------------------------------------------------
\* One line of command words: builtins, programs and their arguments.
\* ------------------------------------------------------------------------
MaxWords == 2  \* words of such a line

WordTokens == {s_type, s_exit, s_history, s_echo, s_ls, s_cdx, p_f, s_0, s_7, s_256}

\* The search path with a builtin's name, a program in both directories and a
\* directory that has a program's name.
FsShadowed ==
    (p_als :> FileEntry(NoText, TRUE)) @@ (p_becho :> FileEntry(NoText, TRUE))
        @@ (p_acdx :> DirEntry) @@ FsBare

InitWords ==
    \E toks \in TokenLists(WordTokens, MaxWords) :
        \E fsys \in {FsBare, FsPopulated, FsShadowed} :
            Started(JoinWith(toks, <<SP>>), fsys)

SpecWords == InitWords /\ [][NextLine]_vars

\* ------------------------------------------------------------------------
\* A session of cd and pwd lines.
\* ------------------------------------------------------------------------
CdLines ==
    {JoinWith(toks, <<SP>>) :
        toks \in {<<s_cd>>, <<s_pwd>>, <<s_cd, p_d>>, <<s_cd, p_f>>, <<s_cd, p_w>>,
                  <<s_cd, p_root>>, <<s_cd, s_tilde>>, <<s_cd, p_tilde_d>>}}

\* The user types a whole cd or pwd line at an empty prompt.
TypeCdLine ==
    /\ status = "reading"
    /\ buffer = NoText
    /\ buffer' \in CdLines
    /\ tty' = <<>>
    /\ UNCHANGED <<status, exit_code, branch, fs, cwd, command, parts, origin,
                   stdout_redirect, stderr_redirect, stdout_append, stderr_append,
                   stdout_target, stderr_target, TAB_PRESSED_COUNT,
                   LAST_COMPLETION_TEXT>>

NextCd == TypeCdLine \/ Enter \/ Interrupt \/ Eof

SpecCd == InitRepl /\ [][NextCd]_vars

\* ------------------------------------------------------------------------
\* Vocabulary of the properties about builtins.
\* ------------------------------------------------------------------------
NoOperatorIn(toks) == \A i \in 1..Len(toks) : toks[i] \notin Operators

\* The line tokenizes into the given command word, at least so many words in
\* all, and no redirection operator.
RunsCommand(line, word, least) ==
    /\ Tokenizes(line)
    /\ TokensOf(line)[1] = word
    /\ Len(TokensOf(line)) >= least
    /\ NoOperatorIn(TokensOf(line))

\* ------------------------------------------------------------------------
\* C13: the working directory changes only in a step that runs cd with an
\* argument that, after the expansion of a leading ~, resolves to an existing
\* directory, and then it becomes that directory; a cd whose argument does not
\* so resolve leaves it as it was and prints "cd: <path>: No such file or
\* directory", <path> being the argument after the expansion.
\* ------------------------------------------------------------------------
CdPath(arg) ==
    IF arg = <<"~">> \/ (Len(arg) >= 2 /\ arg[1] = "~" /\ arg[2] = SLASH)
    THEN p_home \o SubSeq(arg, 2, Len(arg))
    ELSE arg

\* The directory that a path names for a process in directory dir.
CdTarget(dir, path) ==
    IF path = p_root THEN p_root
    ELSE IF path # NoText /\ path[1] = SLASH THEN RStripSlash(path)
    ELSE IF dir = p_root THEN dir \o RStripSlash(path)
    ELSE dir \o <<SLASH>> \o RStripSlash(path)

CdGoesTo(arg) ==
    /\ IsDir(fs, CdTarget(cwd, CdPath(arg)))
    /\ cwd' = CdTarget(cwd, CdPath(arg))

CdRefuses(arg) ==
    /\ cwd' = cwd
    /\ tty' = << <<"c", "d", ":", SP>> \o CdPath(arg) \o m_nosuch \o <<NL>> >>

C13_OnlyCdToDirectoryMoves ==
    [][/\ cwd' # cwd => Enter /\ RunsCommand(buffer, s_cd, 2) /\ CdGoesTo(TokensOf(buffer)[2])
       /\ (Enter /\ RunsCommand(buffer, s_cd, 2)
             /\ ~IsDir(fs, CdTarget(cwd, CdPath(TokensOf(buffer)[2]))))
          => CdRefuses(TokensOf(buffer)[2])]_vars

\* "cd d" went through and "cd f" after it was refused in the new directory.
C13_RefusedAfterMove ==
    /\ branch = "cd"
    /\ command = <<"c", "d", SP, "f">>
    /\ cwd = p_wd
    /\ tty = << <<"c", "d", ":", SP, "f">> \o m_nosuch \o <<NL>> >>

\* ------------------------------------------------------------------------
\* C14: "type name", its output not redirected, prints "name is a shell
\* builtin" when name is in the builtin table; otherwise "name is P", P being
\* the entry for name in the first directory of the search path that holds
\* name as a regular executable file; and "name: not found" when there is no
\* such directory.  The three cases exclude one another, so each output
\* appears exactly in its case.
\* ------------------------------------------------------------------------
IsBuiltinName(name) == \E i \in 1..Len(BUILTIN_COMMANDS) : BUILTIN_COMMANDS[i] = name

EntryIn(i, name) ==
    IF PathDirs[i] = p_root THEN p_root \o name ELSE PathDirs[i] \o <<SLASH>> \o name

HoldsExecutable(i, name) ==
    /\ EntryIn(i, name) \in DOMAIN fs
    /\ fs[EntryIn(i, name)].kind = "file"
    /\ fs[EntryIn(i, name)].x

FirstHolder(name) ==
    CHOOSE i \in 1..Len(PathDirs) :
        HoldsExecutable(i, name) /\ \A j \in 1..(i - 1) : ~HoldsExecutable(j, name)

TypeAnswer(name) ==
    IF IsBuiltinName(name) THEN name \o <<SP>> \o <<"i", "s", SP, "a", SP>>
                                     \o <<"s", "h", "e", "l", "l", SP>>
                                     \o <<"b", "u", "i", "l", "t", "i", "n">>
    ELSE IF \E i \in 1..Len(PathDirs) : HoldsExecutable(i, name)
    THEN name \o <<SP, "i", "s", SP>> \o EntryIn(FirstHolder(name), name)
    ELSE name \o <<":", SP, "n", "o", "t", SP, "f", "o", "u", "n", "d">>

C14_TypeAnswers ==
    [][(Enter /\ RunsCommand(buffer, s_type, 2))
       => tty' = <<TypeAnswer(TokensOf(buffer)[2]) \o <<NL>>>>]_vars

\* "type echo" answered builtin although /b/echo is an executable file.
C14_BuiltinShadowsFile ==
    /\ branch = "type"
    /\ command = s_type \o <<SP>> \o s_echo
    /\ IsExecutableFile(fs, p_becho)
    /\ tty = <<s_echo \o m_builtin \o <<NL>>>>

\* ------------------------------------------------------------------------
\* C15: exit ends the shell in the step that reads the line; end of input ends
\* it with status 0; and a shell that has ended takes no further step.  The
\* status asked for is 0 without an argument, n for an integer n and 1 for
\* any other argument.
\* ------------------------------------------------------------------------
StatusAsked(toks) ==
    IF Len(toks) = 1 THEN 0
    ELSE IF toks[2] = s_0 THEN 0
    ELSE IF toks[2] = s_7 THEN 7
    ELSE IF toks[2] = s_256 THEN 256
    ELSE 1

ExitsAtOnce(code) == status' = "exited" /\ exit_code' = code

\* As stated: the status of the ended shell is the status asked for.
C15_ExitStatusIsN ==
    [][/\ status = "reading"
       /\ (Enter /\ RunsCommand(buffer, s_exit, 1)) => ExitsAtOnce(StatusAsked(TokensOf(buffer)))
       /\ Eof => ExitsAtOnce(0)]_vars

\* C15, amended: the status of the ended shell is the status asked for modulo
\* 256, the status itself when it lies in 0..255.
C15_ExitStatusIsNMod256 ==
    [][/\ status = "reading"
       /\ (Enter /\ RunsCommand(buffer, s_exit, 1))
            => ExitsAtOnce(StatusAsked(TokensOf(buffer)) % 256)
       /\ Eof => ExitsAtOnce(0)]_vars

\* "exit 256" ended the shell with status 0.
C15_Exit256 ==
    /\ status = "exited"
    /\ branch = "exit"
    /\ command = s_exit \o <<SP>> \o s_256
    /\ exit_code = 0

\* ------------------------------------------------------------------------
\* C16: history is a builtin; the first line of a session being a history
\* line, the shell does not look for a program of that name and prints the
\* log, which holds this line alone as entry 1, or nothing.
\* ------------------------------------------------------------------------
C16_HistoryIsBuiltin ==
    [][(Enter /\ branch = "start" /\ RunsCommand(buffer, s_history, 1))
       => /\ branch' \notin {"not_found", "external", "launch_failed"}
          /\ tty' \in {<<>>, <<m_index1 \o Strip(buffer) \o <<NL>>>>}]_vars
====
